---- MODULE Spec2Model ----
(***************************************************************************)
(* State-machine model of main.py: a FastAPI service that reads the        *)
(* m_user_companies table through one SQLAlchemy session per request.      *)
(*                                                                         *)
(* The environment of the program is modelled by three things it does not  *)
(* control: the process environment variables (chosen in Init), the rows   *)
(* of the table (written by ExternalInsert / ExternalDelete) and the       *)
(* availability of the database (SetFault).                                *)
(***************************************************************************)
EXTENDS Naturals, Sequences, FiniteSets

\* Number of requests the model lets the server receive (they may overlap).
MaxRequests == 2

Requests == 1..MaxRequests

\* main.py:88  db = None
None == 0

---------------------------------------------------------------------------
\* Configuration (main.py:24-34)

RequiredVars == {"DB_HOST", "DB_NAME", "DB_USER", "DB_PASSWORD", "DB_SSL_CA"}

\* os.getenv gives None for an unset variable; a variable may be set but empty.
EnvValues == {"None", "", "set"}

\* Python truthiness of an os.getenv result
Truthy(v) == v # "None" /\ v # ""

\* main.py:33  all([DB_USER, DB_PASSWORD, DB_HOST, DB_NAME, DB_SSL_CA])
all_mut(e) == \A k \in RequiredVars \ {"DB_SSL_CA"} : Truthy(e[k])
all(e) == \A k \in RequiredVars : Truthy(e[k])

---------------------------------------------------------------------------
\* The table m_user_companies (main.py:64-72)

CompanyIds == {"C1", "C2"}

\* A row of the table; company_id is the primary key
Company(id) ==
    [company_id    |-> id,
     company_name  |-> IF id = "C1" THEN "Acme" ELSE "Bolt",
     password      |-> IF id = "C1" THEN "pw1" ELSE "pw2",
     company_token |-> IF id = "C1" THEN "tok1" ELSE "tok2",
     created_at    |-> IF id = "C1" THEN 1 ELSE 2,
     updated_at    |-> IF id = "C1" THEN 3 ELSE 4]

IdsOf(S) == {row.company_id : row \in S}

\* main.py:115  the rows that Company.company_id == company_id selects
Matching(S, id) == {row \in S : row.company_id = id}

\* main.py:75-83  the response model: every column but password
CompanySchema(row) ==
    [company_id    |-> row.company_id,
     company_name  |-> row.company_name,
     company_token |-> row.company_token,
     created_at    |-> row.created_at,
     updated_at    |-> row.updated_at]

---------------------------------------------------------------------------
\* Exceptions and responses

NoExc == [type |-> "none", status_code |-> 0, detail |-> ""]

\* main.py:94, 117  HTTPException(status_code=..., detail=...)
HTTPException(code, msg) == [type |-> "HTTPException", status_code |-> code, detail |-> msg]

\* sqlalchemy.exc.SQLAlchemyError (main.py:6) and any other exception class
SQLAlchemyError == [type |-> "SQLAlchemyError", status_code |-> 0, detail |-> "internal"]
OtherError == [type |-> "Exception", status_code |-> 0, detail |-> "internal"]

\* What the database does to a query: "none" is a working database.
Faults == {"none", "SQLAlchemyError", "Exception"}

Raise(f) == IF f = "SQLAlchemyError" THEN SQLAlchemyError ELSE OtherError

NoResponse == [status |-> 0, kind |-> "none", detail |-> "", items |-> <<>>]

\* main.py:103  the fixed greeting {"message": ...}; the literal's kana are
\* written here in Latin letters
Greeting == [status |-> 200, kind |-> "message",
             detail |-> "Hello, POST apuri no Advance dayo!", items |-> <<>>]

\* main.py:52  app = FastAPI(): an HTTPException becomes its status and detail,
\* any other exception escaping a route becomes the plain 500 of the server.
ErrorResponse(e) ==
    IF e.type = "HTTPException"
    THEN [status |-> e.status_code, kind |-> "detail", detail |-> e.detail, items |-> <<>>]
    ELSE [status |-> 500, kind |-> "text", detail |-> "Internal Server Error", items |-> <<>>]

\* main.py:106, 112  response_model=List[CompanySchema] / CompanySchema
Serialize(path, result) ==
    [status |-> 200,
     kind   |-> IF path = "companies" THEN "array" ELSE "object",
     detail |-> "",
     items  |-> [i \in 1..Len(result) |-> CompanySchema(result[i])]]

\* The orders in which a query may return the rows of a set
Orderings(S) ==
    {f \in [1..Cardinality(S) -> S] : \A i, j \in 1..Cardinality(S) : i # j => f[i] # f[j]}

---------------------------------------------------------------------------
VARIABLES
    env,        \* the process environment: RequiredVars -> EnvValues
    phase,      \* "init", "failed" (import raised) or "running"
    app,        \* TRUE once app = FastAPI() and its routes exist
    engine,     \* TRUE once engine and SessionLocal exist
    store,      \* the rows of m_user_companies
    fault,      \* what the database currently does to a query
    sessions,   \* every session SessionLocal() has made, in order of creation
    pc,         \* per request: "idle", "handler" (get_db is at its yield), "done"
    req,        \* per request: the route and the path parameter
    db,         \* per request: the session get_db holds, or None
    rows,       \* per request: the value the route function returned
    raised,     \* per request: the exception SessionLocal() or the route raised
    resp,       \* per request: the response sent
    seen,       \* per request: the rows its query selects from, when it ran
    avail,      \* per request: the fault of the database when its route ran,
                \* or the fault of SessionLocal() if that ended the request
    after       \* per request: TRUE if it arrived after a request had failed

vars == <<env, phase, app, engine, store, fault, sessions, pc, req, db, rows,
          raised, resp, seen, avail, after>>

reqvars == <<sessions, pc, req, db, rows, raised, resp, seen, avail, after>>

NoRequest == [path |-> "none", company_id |-> ""]

Init ==
    /\ env \in [RequiredVars -> EnvValues]
    /\ phase = "init"
    /\ app = FALSE
    /\ engine = FALSE
    /\ store = {Company("C1")}
    /\ fault = "none"
    /\ sessions = <<>>
    /\ pc = [r \in Requests |-> "idle"]
    /\ req = [r \in Requests |-> NoRequest]
    /\ db = [r \in Requests |-> None]
    /\ rows = [r \in Requests |-> <<>>]
    /\ raised = [r \in Requests |-> NoExc]
    /\ resp = [r \in Requests |-> NoResponse]
    /\ seen = [r \in Requests |-> <<>>]
    /\ avail = [r \in Requests |-> "none"]
    /\ after = [r \in Requests |-> FALSE]

---------------------------------------------------------------------------
\* main.py:24-61  module import: configuration check, engine, application

Startup ==
    /\ phase = "init"
    /\ IF ~all(env)
       THEN \* main.py:34 raise ValueError
            /\ phase' = "failed"
            /\ UNCHANGED <<app, engine>>
       ELSE \E created \in BOOLEAN :
            IF created
            THEN /\ phase' = "running"
                 /\ engine' = TRUE
                 /\ app' = TRUE
            ELSE \* main.py:40-42 raise RuntimeError
                 /\ phase' = "failed"
                 /\ UNCHANGED <<app, engine>>
    /\ UNCHANGED <<env, store, fault>>
    /\ UNCHANGED reqvars

---------------------------------------------------------------------------
\* The environment: rows are written from outside, the database comes and goes

ExternalInsert ==
    /\ \E id \in CompanyIds \ IdsOf(store) : store' = store \cup {Company(id)}
    /\ UNCHANGED <<env, phase, app, engine, fault>>
    /\ UNCHANGED reqvars

ExternalDelete ==
    /\ \E row \in store : store' = store \ {row}
    /\ UNCHANGED <<env, phase, app, engine, fault>>
    /\ UNCHANGED reqvars

SetFault ==
    /\ \E f \in Faults : f # fault /\ fault' = f
    /\ UNCHANGED <<env, phase, app, engine, store>>
    /\ UNCHANGED reqvars

---------------------------------------------------------------------------
\* get_db (main.py:86-97), a generator run around the route function

\* main.py:90  SessionLocal(): a new session, never one that exists already
SessionLocal_mut(ss) == IF Len(ss) = 0 THEN 1 ELSE Len(ss)
SessionLocal(ss) == Len(ss) + 1

NewSession == [open |-> TRUE, users |-> {}, closers |-> <<>>]

\* The sessions after SessionLocal() returned session s
Created(ss, s) == IF s > Len(ss) THEN Append(ss, NewSession) ELSE ss

\* main.py:92-94  except SQLAlchemyError: raise HTTPException(500, "Database error")
get_db_except_mut(e) == IF e.type = "SQLAlchemyError" THEN NoExc ELSE e
get_db_except(e) ==
    IF e.type = "SQLAlchemyError" THEN HTTPException(500, "Database error") ELSE e

\* main.py:97  db.close()
Close(ss, s, r) == [ss EXCEPT ![s].open = FALSE, ![s].closers = Append(@, r)]

\* main.py:95-97  finally: if db: db.close()
get_db_finally_mut(ss, d, r, e) == IF d # None /\ e.type = "none" THEN Close(ss, d, r) ELSE ss
get_db_finally(ss, d, r, e) == IF d # None THEN Close(ss, d, r) ELSE ss

\* A session runs a query for request r
Use(ss, s, r) == [ss EXCEPT ![s].users = @ \cup {r}]

\* Request r arrives. Requests are numbered in the order they arrive.
Arrive(r, path, id) ==
    /\ phase = "running"
    /\ pc[r] = "idle"
    /\ \A q \in Requests : q < r => pc[q] # "idle"
    /\ req' = [req EXCEPT ![r] = [path |-> path, company_id |-> id]]
    /\ after' = [after EXCEPT ![r] =
                    \E q \in Requests : pc[q] = "done" /\ resp[q].status \in {404, 500}]

\* main.py:92-97  the route function of request r has returned result or
\* raised e (thrown into get_db at its yield); get_db runs to its end on
\* sessions ss and the response is sent
get_db_exit(r, ss, e, result) ==
    /\ raised' = [raised EXCEPT ![r] = e]
    /\ rows' = [rows EXCEPT ![r] = result]
    /\ sessions' = get_db_finally(ss, db[r], r, e)
    /\ resp' = [resp EXCEPT ![r] =
                   IF get_db_except(e).type = "none"
                   THEN Serialize(req[r].path, result)
                   ELSE ErrorResponse(get_db_except(e))]
    /\ pc' = [pc EXCEPT ![r] = "done"]

\* main.py:88-91  a request for /companies or /companies/{company_id} arrives
\* and get_db runs up to its yield; if SessionLocal() raises, get_db ends
\* with db = None and so does the request
get_db_enter(r) ==
    /\ \E path \in {"companies", "company"}, id \in CompanyIds, acq \in Faults :
          /\ path = "companies" => id = "C1"
          /\ Arrive(r, path, IF path = "company" THEN id ELSE "")
          /\ avail' = [avail EXCEPT ![r] = acq]
          /\ IF acq = "none"
             THEN /\ db' = [db EXCEPT ![r] = SessionLocal(sessions)]
                  /\ sessions' = Created(sessions, SessionLocal(sessions))
                  /\ pc' = [pc EXCEPT ![r] = "handler"]
                  /\ UNCHANGED <<raised, rows, resp>>
             ELSE /\ get_db_exit(r, sessions, Raise(acq), <<>>)
                  /\ UNCHANGED db
    /\ UNCHANGED <<env, phase, app, engine, store, fault, seen>>

---------------------------------------------------------------------------
\* The routes

\* main.py:100-103
read_root_mut(r) ==
    /\ Arrive(r, "root", "")
    /\ avail' = [avail EXCEPT ![r] = fault]
    /\ resp' = [resp EXCEPT ![r] = IF fault = "none" THEN Greeting
                                   ELSE ErrorResponse(get_db_except(Raise(fault)))]
    /\ pc' = [pc EXCEPT ![r] = "done"]
    /\ UNCHANGED <<env, phase, app, engine, store, fault, sessions, db, rows, raised, seen>>

read_root(r) ==
    /\ Arrive(r, "root", "")
    /\ avail' = [avail EXCEPT ![r] = fault]
    /\ resp' = [resp EXCEPT ![r] = Greeting]
    /\ pc' = [pc EXCEPT ![r] = "done"]
    /\ UNCHANGED <<env, phase, app, engine, store, fault, sessions, db, rows, raised, seen>>

\* main.py:108  db.query(Company).all(): the rows, in an order the database picks
all_rows_mut(S) == {IF Len(f) > 1 THEN Tail(f) ELSE f : f \in Orderings(S)}
all_rows(S) == Orderings(S)

\* main.py:106-109
read_companies(r) ==
    /\ pc[r] = "handler"
    /\ req[r].path = "companies"
    /\ seen' = [seen EXCEPT ![r] = <<store>>]
    /\ avail' = [avail EXCEPT ![r] = fault]
    /\ IF fault = "none"
       THEN \E result \in all_rows(store) :
               get_db_exit(r, Use(sessions, db[r], r), NoExc, result)
       ELSE get_db_exit(r, Use(sessions, db[r], r), Raise(fault), <<>>)
    /\ UNCHANGED <<env, phase, app, engine, store, fault, req, db, after>>

\* main.py:115  db.query(Company).filter(Company.company_id == company_id).first()
first_mut(S, id) == IF S = {} THEN <<>> ELSE <<CHOOSE row \in S : row.company_id # id \/ S = {row}>>
first(S, id) ==
    IF Matching(S, id) = {} THEN <<>> ELSE <<CHOOSE row \in Matching(S, id) : TRUE>>

\* main.py:116-118  if not company: raise HTTPException(404, ...); return company
found_mut(company) == IF company = <<>> THEN OtherError ELSE NoExc
found(company) ==
    IF company = <<>> THEN HTTPException(404, "User not found") ELSE NoExc

\* main.py:112-118
read_company_mut(r) ==
    /\ pc[r] = "handler"
    /\ req[r].path = "company"
    /\ seen' = [seen EXCEPT ![r] = <<Matching(store, req[r].company_id)>>]
    /\ avail' = [avail EXCEPT ![r] = fault]
    /\ store' = store \ Matching(store, req[r].company_id)
    /\ IF fault = "none"
       THEN LET company == first(store, req[r].company_id) IN
            get_db_exit(r, Use(sessions, db[r], r), found(company), company)
       ELSE get_db_exit(r, Use(sessions, db[r], r), Raise(fault), <<>>)
    /\ UNCHANGED <<env, phase, app, engine, fault, req, db, after>>

read_company(r) ==
    /\ pc[r] = "handler"
    /\ req[r].path = "company"
    /\ seen' = [seen EXCEPT ![r] = <<Matching(store, req[r].company_id)>>]
    /\ avail' = [avail EXCEPT ![r] = fault]
    /\ IF fault = "none"
       THEN LET company == first(store, req[r].company_id) IN
            get_db_exit(r, Use(sessions, db[r], r), found(company), company)
       ELSE get_db_exit(r, Use(sessions, db[r], r), Raise(fault), <<>>)
    /\ UNCHANGED <<env, phase, app, engine, store, fault, req, db, after>>

---------------------------------------------------------------------------
Next ==
    \/ Startup
    \/ ExternalInsert
    \/ ExternalDelete
    \/ SetFault
    \/ \E r \in Requests : read_root(r)
    \/ \E r \in Requests : get_db_enter(r)
    \/ \E r \in Requests : read_companies(r)
    \/ \E r \in Requests : read_company(r)

Spec == Init /\ [][Next]_vars

---------------------------------------------------------------------------
\* Properties

Done(r) == pc[r] = "done"

IsCompanies(r) == req[r].path \in {"companies", "company"}

\* Acquiring or using the session of request r failed
Failed(r) == IsCompanies(r) /\ avail[r] # "none"

Closed(s) == ~sessions[s].open

DatabaseError == [status |-> 500, kind |-> "detail", detail |-> "Database error", items |-> <<>>]

NotFound == [status |-> 404, kind |-> "detail", detail |-> "User not found", items |-> <<>>]

\* The five fields of a row that a response may show
Public(row) == [f \in {"company_id", "company_name", "company_token",
                       "created_at", "updated_at"} |-> row[f]]

Items(r) == {resp[r].items[i] : i \in 1..Len(resp[r].items)}

NoPassword(r) == \A item \in Items(r) : "password" \notin DOMAIN item

\* C1: a session that get_db opened for a request is closed exactly once, by
\* that request, when the request is finished, whether the route returned,
\* raised 404 or failed; when no request is in flight no session is open.
C1_SessionClosedOnEveryExit ==
    /\ \A r \in Requests :
          Done(r) /\ db[r] # None => Closed(db[r]) /\ sessions[db[r]].closers = <<r>>
    /\ \A s \in 1..Len(sessions) : Len(sessions[s].closers) <= 1
    /\ (\A r \in Requests : pc[r] # "handler") => \A s \in 1..Len(sessions) : Closed(s)

C1_Witness ==
    \E r1, r2 \in Requests :
        /\ Done(r1) /\ db[r1] # None /\ raised[r1].status_code = 404 /\ Closed(db[r1])
        /\ Done(r2) /\ db[r2] # None /\ Failed(r2) /\ Closed(db[r2])

\* C2: every failure while acquiring or using a session in GET /companies or
\* GET /companies/{company_id} is answered with status 500 and the detail
\* "Database error", and the session, if one was opened, is closed.
C2_AnyFailureIsDatabaseError ==
    \A r \in Requests :
        Done(r) /\ IsCompanies(r) /\ Failed(r) =>
            /\ resp[r] = DatabaseError
            /\ db[r] # None => Closed(db[r])

\* C3 as claimed: a company_id absent from the store when the query runs is
\* answered 404 "User not found", never 500.
C3_AbsentIsNeverServerError ==
    \A r \in Requests :
        Done(r) /\ req[r].path = "company" /\ seen[r] = <<{}>> => resp[r] = NotFound

\* C3 as amended: a company_id absent from the store when the query runs is
\* answered 404 "User not found" unless acquiring or using the session
\* fails, and then, and only then, it is answered 500.
C3_AbsentIsNotFound ==
    \A r \in Requests :
        Done(r) /\ req[r].path = "company" =>
            /\ Failed(r) => resp[r].status = 500
            /\ ~Failed(r) /\ seen[r] = <<{}>> => resp[r] = NotFound

C3_Witness ==
    \E r \in Requests :
        /\ Done(r) /\ req[r].path = "company" /\ seen[r] = <<{}>>
        /\ ~Failed(r) /\ resp[r] = NotFound

\* The one object that answers a request whose company_id is in the store
Found(r) ==
    /\ resp[r].status = 200
    /\ resp[r].kind = "object"
    /\ Items(r) = {Public(row) : row \in seen[r][1]}
    /\ Len(resp[r].items) = 1
    /\ resp[r].items[1].company_id = req[r].company_id
    /\ NoPassword(r)

\* C4 as claimed: a company_id present in the store when the query runs is
\* answered 200 with that row's company_id, company_name, company_token,
\* created_at and updated_at, and without the password.
C4_PresentIsReturned ==
    \A r \in Requests :
        Done(r) /\ req[r].path = "company" /\ seen[r] # <<>> /\ seen[r] # <<{}>> => Found(r)

\* C4 as amended: the same, unless acquiring or using the session fails,
\* and then the answer is 500 with no record.
C4_PresentIsReturnedUnlessFailed ==
    \A r \in Requests :
        Done(r) /\ req[r].path = "company" =>
            /\ Failed(r) => resp[r].status = 500 /\ resp[r].items = <<>>
            /\ ~Failed(r) /\ seen[r] # <<{}>> => Found(r)

C4_Witness ==
    \E r \in Requests :
        /\ Done(r) /\ req[r].path = "company" /\ seen[r] # <<>> /\ seen[r] # <<{}>>
        /\ ~Failed(r) /\ Found(r)
        /\ Cardinality(store) = 2

\* The array that answers GET /companies from the rows the query saw
Listed(r) ==
    /\ resp[r].kind = "array"
    /\ {item.company_id : item \in Items(r)} = IdsOf(seen[r][1])
    /\ Len(resp[r].items) = Cardinality(seen[r][1])
    /\ Items(r) = {Public(row) : row \in seen[r][1]}
    /\ NoPassword(r)

\* C5 as claimed: GET /companies returns an array whose company_ids are
\* exactly those of the store when the query ran (an empty array for an
\* empty store), and no record has a password.
C5_ListMatchesStore ==
    \A r \in Requests :
        Done(r) /\ req[r].path = "companies" /\ seen[r] # <<>> => Listed(r)

\* C5 as amended: the same with status 200, unless acquiring or using the
\* session fails, and then the answer is 500 and no array.
C5_ListMatchesStoreUnlessFailed ==
    \A r \in Requests :
        Done(r) /\ req[r].path = "companies" =>
            /\ Failed(r) => resp[r].status = 500 /\ resp[r].kind # "array"
            /\ ~Failed(r) => resp[r].status = 200 /\ Listed(r)

C5_Witness ==
    \E r1, r2 \in Requests :
        /\ Done(r1) /\ req[r1].path = "companies" /\ ~Failed(r1)
        /\ Len(resp[r1].items) = 2 /\ Listed(r1)
        /\ Done(r2) /\ req[r2].path = "companies" /\ ~Failed(r2)
        /\ seen[r2] = <<{}>> /\ resp[r2].items = <<>> /\ resp[r2].status = 200

\* C6: when a required variable is unset the import fails before the
\* engine, the application or a route exists, and no request is served.
C6_NoStartupWithoutConfiguration ==
    (\E k \in RequiredVars : env[k] = "None") =>
        /\ phase # "running"
        /\ ~app
        /\ ~engine
        /\ \A r \in Requests : pc[r] = "idle" /\ resp[r] = NoResponse

C6_Witness ==
    /\ phase = "failed"
    /\ \E k \in RequiredVars : env[k] = "None" /\ \A j \in RequiredVars \ {k} : env[j] = "set"

\* C7: GET / is answered 200 with the fixed greeting whatever the database
\* does; it holds no session, runs no query, and every session that exists
\* was made for, used by and closed by requests for the companies routes.
C7_RootAlwaysGreets ==
    /\ \A r \in Requests :
          Done(r) /\ req[r].path = "root" =>
              /\ resp[r].status = 200
              /\ resp[r].kind = "message"
              /\ resp[r].detail = "Hello, POST apuri no Advance dayo!"
              /\ db[r] = None
              /\ seen[r] = <<>>
    /\ \A s \in 1..Len(sessions) :
          /\ \E r \in Requests : db[r] = s /\ IsCompanies(r)
          /\ \A r \in sessions[s].users : IsCompanies(r)
          /\ \A i \in 1..Len(sessions[s].closers) : IsCompanies(sessions[s].closers[i])

C7_Witness ==
    \E r \in Requests :
        Done(r) /\ req[r].path = "root" /\ avail[r] # "none" /\ resp[r].status = 200

\* C8: a step in which the service starts or handles a request leaves the
\* rows of the store as they are.
C8_ServiceOnlyReads == [][pc' # pc \/ phase' # phase => store' = store]_vars

C8_Witness ==
    \E r1, r2 \in Requests :
        /\ Done(r1) /\ req[r1].path = "company" /\ resp[r1].status = 200
        /\ Done(r2) /\ IsCompanies(r2) /\ resp[r2].status \in {404, 500}
        /\ store # {}

\* The answer to request r as its own request and its own query decide it
Answer(r) ==
    IF req[r].path = "root" THEN resp[r].status = 200 /\ resp[r].kind = "message"
    ELSE IF avail[r] = "SQLAlchemyError" THEN resp[r] = DatabaseError
    ELSE IF avail[r] = "Exception" THEN resp[r].status = 500 /\ resp[r].items = <<>>
    ELSE IF req[r].path = "companies" THEN resp[r].status = 200 /\ Listed(r)
    ELSE IF seen[r] = <<{}>> THEN resp[r] = NotFound
    ELSE Found(r)

\* C9: a request that fails is answered 404 or 500; the process that has
\* started keeps running whatever its requests did; and every request,
\* also one that arrives after a failed one, gets the answer its own
\* request and query decide.
C9_FailuresReportedNotFatal ==
    /\ \A r \in Requests :
          Done(r) /\ (Failed(r) \/ raised[r].type # "none") => resp[r].status \in {404, 500}
    /\ (\E r \in Requests : pc[r] # "idle") => phase = "running" /\ app /\ engine
    /\ \A r \in Requests : Done(r) => Answer(r)

C9_Witness ==
    \E r1, r2 \in Requests :
        /\ r1 < r2
        /\ Done(r1) /\ resp[r1].status = 500
        /\ after[r2] /\ Done(r2) /\ req[r2].path = "company" /\ resp[r2].status = 200
        /\ phase = "running"

\* C10: every request for a companies route has a session of its own: no
\* two requests hold the same session, a session runs queries for and is
\* closed by the request that holds it only, and no more sessions are open
\* than requests are in flight.
C10_SessionPerRequest ==
    /\ \A r1, r2 \in Requests :
          r1 # r2 /\ db[r1] # None /\ db[r2] # None => db[r1] # db[r2]
    /\ \A s \in 1..Len(sessions) :
          /\ \A r \in sessions[s].users : db[r] = s
          /\ \A i \in 1..Len(sessions[s].closers) : db[sessions[s].closers[i]] = s
    /\ Cardinality({s \in 1..Len(sessions) : sessions[s].open})
          <= Cardinality({r \in Requests : pc[r] = "handler"})

C10_Witness ==
    \E r1, r2 \in Requests :
        /\ r1 # r2 /\ pc[r1] = "handler" /\ pc[r2] = "handler"
        /\ db[r1] # db[r2] /\ sessions[db[r1]].open /\ sessions[db[r2]].open

====
